---- MODULE Spec2Model ----
(***************************************************************************)
(* Forward-mode automatic differentiation (package autodiff).             *)
(*                                                                         *)
(* A float64 is modelled as a pair <<n, d>>: a finite number is the        *)
(* reduced fraction n/d with d > 0, +Inf is <<1, 0>>, -Inf is <<-1, 0>>    *)
(* and NaN is <<0, 0>>.  Arithmetic follows IEEE 754 on these (Inf * 0 is  *)
(* NaN, NaN is unequal to and unordered with everything); finite results   *)
(* are exact, the sign of zero is not kept, and an operation whose finite  *)
(* result leaves the representable range is not taken (MaxMag).            *)
(* A *Variable is an index into heap, so two arguments may be the same     *)
(* Variable.                                                               *)
(***************************************************************************)
EXTENDS Integers, Sequences, FiniteSets

VARIABLES heap, last, calls, inputs, f, grad, i, vars, pc, ret, evals

allvars == <<heap, last, calls, inputs, f, grad, i, vars, pc, ret, evals>>

\* ------------------------------------------------------------ bounds
MaxMag == 40
MaxCalls == 3
MaxCells == 3
MaxProgLen == 2

\* ------------------------------------------------------------ float64
Abs(n) == IF n < 0 THEN -n ELSE n

Sgn(n) == IF n < 0 THEN -1 ELSE IF n > 0 THEN 1 ELSE 0

RECURSIVE GCD(_, _)
GCD(a, b) == IF b = 0 THEN a ELSE GCD(b, a % b)

Norm(n, d) ==
    IF d = 0 THEN <<Sgn(n), 0>>
    ELSE LET s == IF d < 0 THEN -1 ELSE 1
             g == GCD(Abs(n), Abs(d))
         IN  <<(s * n) \div g, (s * d) \div g>>

Zero == <<0, 1>>
One == <<1, 1>>
Half == <<1, 2>>
PosInf == <<1, 0>>
NegInf == <<-1, 0>>
NaN == <<0, 0>>

Int2F(n) == <<n, 1>>

IsNaN(x) == x[1] = 0 /\ x[2] = 0
IsInf(x) == x[1] # 0 /\ x[2] = 0
IsFinite(x) == x[2] # 0

\* Go's x == 0 and x <= 0 on float64: false for a NaN
IsZero(x) == x[1] = 0 /\ x[2] # 0
LeZero(x) == x[1] <= 0 /\ ~IsNaN(x)

FNeg(x) == <<-x[1], x[2]>>

FAdd(x, y) ==
    IF IsNaN(x) \/ IsNaN(y) THEN NaN
    ELSE IF IsInf(x) /\ IsInf(y) THEN (IF x = y THEN x ELSE NaN)
    ELSE IF IsInf(x) THEN x
    ELSE IF IsInf(y) THEN y
    ELSE Norm(x[1] * y[2] + y[1] * x[2], x[2] * y[2])

FSub(x, y) == FAdd(x, FNeg(y))

FMul(x, y) == Norm(x[1] * y[1], x[2] * y[2])

Recip(x) == Norm(x[2] * Sgn(x[1]) + (IF IsZero(x) THEN 1 ELSE 0), Abs(x[1]))

FDiv(x, y) == FMul(x, Recip(y))

Representable(x) == Abs(x[1]) <= MaxMag /\ x[2] <= MaxMag

\* ------------------------------------------------------------ math helpers
\* math.Sin, math.Cos, math.Exp and math.Log are tabulated at the integer
\* arguments of small magnitude, rounded to one decimal place (a float64 of
\* lower precision); their IEEE special cases are kept.
InTable(x) == ~IsFinite(x) \/ (x[2] = 1 /\ Abs(x[1]) <= 2)

InLogTable(x) == ~IsFinite(x) \/ LeZero(x) \/ (x[2] = 1 /\ x[1] <= 4)

sin(x) ==
    IF ~IsFinite(x) THEN NaN
    ELSE CASE x[1] = 0 -> Zero
           [] x[1] = 1 -> <<4, 5>>
           [] x[1] = 2 -> <<9, 10>>
           [] x[1] = -1 -> <<-4, 5>>
           [] x[1] = -2 -> <<-9, 10>>

cos(x) ==
    IF ~IsFinite(x) THEN NaN
    ELSE CASE x[1] = 0 -> One
           [] Abs(x[1]) = 1 -> <<1, 2>>
           [] Abs(x[1]) = 2 -> <<-2, 5>>

exp(x) ==
    IF IsNaN(x) THEN NaN
    ELSE IF x = PosInf THEN PosInf
    ELSE IF x = NegInf THEN Zero
    ELSE CASE x[1] = 0 -> One
           [] x[1] = 1 -> <<27, 10>>
           [] x[1] = 2 -> <<37, 5>>
           [] x[1] = -1 -> <<2, 5>>
           [] x[1] = -2 -> <<1, 10>>

log(x) ==
    IF IsNaN(x) THEN NaN
    ELSE IF x = PosInf THEN PosInf
    ELSE IF IsZero(x) THEN NegInf
    ELSE IF x[1] < 0 THEN NaN
    ELSE CASE x[1] = 1 -> Zero
           [] x[1] = 2 -> <<7, 10>>
           [] x[1] = 3 -> <<11, 10>>
           [] x[1] = 4 -> <<7, 5>>

RECURSIVE IntPow(_, _)
IntPow(x, k) ==
    IF k = 0 THEN One
    ELSE IF k < 0 THEN Recip(IntPow(x, -k))
    ELSE FMul(x, IntPow(x, k - 1))

IsSquareInt(n) == \E r \in 0..MaxMag : r * r = n

ISqrt(n) == CHOOSE r \in 0..MaxMag : r * r = n

IsSquare(x) == IsFinite(x) /\ x[1] >= 0 /\ IsSquareInt(x[1]) /\ IsSquareInt(x[2])

Sqrt(x) == <<ISqrt(x[1]), ISqrt(x[2])>>

IsOddInt(y) == y[2] = 1 /\ y[1] % 2 = 1

\* the exponents y are finite with denominator 1 or 2
PowInTable(x, y) == y[2] = 1 \/ ~IsFinite(x) \/ x[1] <= 0 \/ IsSquare(x)

pow(x, y) ==
    IF IsZero(y) THEN One
    ELSE IF x = One THEN One
    ELSE IF y = One THEN x
    ELSE IF IsNaN(x) THEN NaN
    ELSE IF IsZero(x) THEN (IF y[1] < 0 THEN PosInf ELSE Zero)
    ELSE IF x = PosInf THEN (IF y[1] > 0 THEN PosInf ELSE Zero)
    ELSE IF x = NegInf
         THEN (IF y[1] < 0 THEN Zero ELSE IF IsOddInt(y) THEN NegInf ELSE PosInf)
    ELSE IF y[2] = 1 THEN IntPow(x, y[1])
    ELSE IF x[1] < 0 THEN NaN
    ELSE IntPow(Sqrt(x), y[1])

\* ------------------------------------------------------------ Variable
NoErr == "none"
DivisionByZero == "division by zero"
LogDomain == "log of non-positive number"
PowDomain == "invalid power operation"

DualNumber(value, deriv) == [Value |-> value, Deriv |-> deriv]

\* &Variable{...}: a new cell at the end of the heap
Alloc(h, dual) == [heap |-> Append(h, dual), ret |-> Len(h) + 1, err |-> NoErr]

Updated(h, v) == [heap |-> h, ret |-> v, err |-> NoErr]

Panic(h, msg) == [heap |-> h, ret |-> 0, err |-> msg]

NewVariable(h, value, deriv) == Alloc(h, DualNumber(value, deriv))

NewScalar(h, value) == Alloc(h, DualNumber(value, Zero))

NewInput(h, value) == Alloc(h, DualNumber(value, One))

Value(h, v) == h[v].Value

Deriv(h, v) == h[v].Deriv

\* the in-place methods: one heap update per statement, in source order; the
\* second statement reads the heap the first one left (v and v2 may be equal)
MethodAdd(h, v, v2) ==
    LET h1 == [h EXCEPT ![v].Value = FAdd(h[v].Value, h[v2].Value)]
        h2 == [h1 EXCEPT ![v].Deriv = FAdd(h1[v].Deriv, h1[v2].Deriv)]
    IN  Updated(h2, v)

\* a Sub that negates its operand in place and adds it
MethodSubNegatesOperand(h, v, v2) ==
    LET h1 == [h EXCEPT ![v2] = DualNumber(FNeg(h[v2].Value), FNeg(h[v2].Deriv))]
        h2 == [h1 EXCEPT ![v].Value = FAdd(h1[v].Value, h1[v2].Value)]
        h3 == [h2 EXCEPT ![v].Deriv = FAdd(h2[v].Deriv, h2[v2].Deriv)]
    IN  Updated(h3, v)

MethodSub(h, v, v2) ==
    LET h1 == [h EXCEPT ![v].Value = FSub(h[v].Value, h[v2].Value)]
        h2 == [h1 EXCEPT ![v].Deriv = FSub(h1[v].Deriv, h1[v2].Deriv)]
    IN  Updated(h2, v)

\* a Mul that updates the value before it computes the tangent
MethodMulValueFirst(h, v, v2) ==
    LET h1 == [h EXCEPT ![v].Value = FMul(h[v].Value, h[v2].Value)]
        h2 == [h1 EXCEPT ![v].Deriv = FAdd(FMul(h1[v].Deriv, h1[v2].Value),
                                           FMul(h1[v].Value, h1[v2].Deriv))]
    IN  Updated(h2, v)

MethodMul(h, v, v2) ==
    LET h1 == [h EXCEPT ![v].Deriv = FAdd(FMul(h[v].Deriv, h[v2].Value),
                                          FMul(h[v].Value, h[v2].Deriv))]
        h2 == [h1 EXCEPT ![v].Value = FMul(h1[v].Value, h1[v2].Value)]
    IN  Updated(h2, v)

\* a Div that tests the divisor only after it wrote the quotient
MethodDivChecksLate(h, v, v2) ==
    LET h1 == [h EXCEPT ![v].Deriv =
                  FDiv(FSub(FMul(h[v].Deriv, h[v2].Value),
                            FMul(h[v].Value, h[v2].Deriv)),
                       FMul(h[v2].Value, h[v2].Value))]
        h2 == [h1 EXCEPT ![v].Value = FDiv(h1[v].Value, h1[v2].Value)]
    IN  IF IsZero(h[v2].Value) THEN Panic(h2, DivisionByZero) ELSE Updated(h2, v)

MethodDiv(h, v, v2) ==
    IF IsZero(h[v2].Value) THEN Panic(h, DivisionByZero)
    ELSE LET h1 == [h EXCEPT ![v].Deriv =
                       FDiv(FSub(FMul(h[v].Deriv, h[v2].Value),
                                 FMul(h[v].Value, h[v2].Deriv)),
                            FMul(h[v2].Value, h[v2].Value))]
             h2 == [h1 EXCEPT ![v].Value = FDiv(h1[v].Value, h1[v2].Value)]
         IN  Updated(h2, v)

\* elementary functions
Sin(h, v) ==
    Alloc(h, DualNumber(sin(h[v].Value), FMul(cos(h[v].Value), h[v].Deriv)))

Cos(h, v) ==
    Alloc(h, DualNumber(cos(h[v].Value), FMul(FNeg(sin(h[v].Value)), h[v].Deriv)))

Exp(h, v) ==
    LET expVal == exp(h[v].Value)
    IN  Alloc(h, DualNumber(expVal, FMul(expVal, h[v].Deriv)))

\* a Log that rejects negative values only
LogRejectsNegative(h, v) ==
    IF LeZero(h[v].Value) /\ ~IsZero(h[v].Value) THEN Panic(h, LogDomain)
    ELSE Alloc(h, DualNumber(log(h[v].Value), FDiv(h[v].Deriv, h[v].Value)))

Log(h, v) ==
    IF LeZero(h[v].Value) THEN Panic(h, LogDomain)
    ELSE Alloc(h, DualNumber(log(h[v].Value), FDiv(h[v].Deriv, h[v].Value)))

Pow(h, v, exponent) ==
    IF IsZero(h[v].Value) /\ LeZero(exponent) THEN Panic(h, PowDomain)
    ELSE LET powVal == pow(h[v].Value, FSub(exponent, One))
         IN  Alloc(h, DualNumber(FMul(powVal, h[v].Value),
                                 FMul(FMul(exponent, powVal), h[v].Deriv)))

\* functions that return new Variables
\* an Add that accumulates into its first argument and returns it
AddIntoFirst(h, v1, v2) ==
    LET h1 == [h EXCEPT ![v1].Value = FAdd(h[v1].Value, h[v2].Value)]
        h2 == [h1 EXCEPT ![v1].Deriv = FAdd(h1[v1].Deriv, h1[v2].Deriv)]
    IN  Updated(h2, v1)

Add(h, v1, v2) ==
    Alloc(h, DualNumber(FAdd(h[v1].Value, h[v2].Value),
                        FAdd(h[v1].Deriv, h[v2].Deriv)))

Mul(h, v1, v2) ==
    Alloc(h, DualNumber(FMul(h[v1].Value, h[v2].Value),
                        FAdd(FMul(h[v1].Deriv, h[v2].Value),
                             FMul(h[v1].Value, h[v2].Deriv))))

\* ------------------------------------------------------------ calls
\* One call of the package: op names the function, p and q are the Variables
\* passed (0 when unused), x and y the float64 arguments.
Exec(h, op, p, q, x, y) ==
    CASE op = "NewVariable" -> NewVariable(h, x, y)
      [] op = "NewScalar" -> NewScalar(h, x)
      [] op = "NewInput" -> NewInput(h, x)
      [] op = "v.Add" -> MethodAdd(h, p, q)
      [] op = "v.Sub" -> MethodSub(h, p, q)
      [] op = "v.Mul" -> MethodMul(h, p, q)
      [] op = "v.Div" -> MethodDiv(h, p, q)
      [] op = "Sin" -> Sin(h, p)
      [] op = "Cos" -> Cos(h, p)
      [] op = "Exp" -> Exp(h, p)
      [] op = "Log" -> Log(h, p)
      [] op = "Pow" -> Pow(h, p, x)
      [] op = "Add" -> Add(h, p, q)
      [] op = "Mul" -> Mul(h, p, q)

\* the arguments lie where the tabulated math helpers are defined
Tabulated(h, op, p, x) ==
    CASE op \in {"Sin", "Cos", "Exp"} -> InTable(h[p].Value)
      [] op = "Log" -> InLogTable(h[p].Value)
      [] op = "Pow" -> PowInTable(h[p].Value, FSub(x, One))
      [] OTHER -> TRUE

HeapRepresentable(h) ==
    \A c \in DOMAIN h : Representable(h[c].Value) /\ Representable(h[c].Deriv)

Constructors == {"NewVariable", "NewScalar", "NewInput"}
Methods == {"v.Add", "v.Sub", "v.Mul", "v.Div"}
Elementary == {"Sin", "Cos", "Exp", "Log", "Pow"}
PureBinary == {"Add", "Mul"}

\* the float64 arguments the caller passes
Vals == {Int2F(-1), Zero, Int2F(2)}
Derivs == {Int2F(2)}
Exponents == {Int2F(-1), Zero, Half, One, Int2F(2)}

NoCall == [op |-> "none", v |-> 0, v2 |-> 0, x |-> Zero, ret |-> 0, err |-> NoErr]

gradvars == <<inputs, f, grad, i, vars, pc, ret, evals>>

\* A call that panics is recorded in last.err and changes nothing on the heap
\* but what it wrote before the panic; the caller may recover and call again.
Call(op, p, q, x, y) ==
    /\ calls < MaxCalls
    /\ Tabulated(heap, op, p, x)
    /\ LET r == Exec(heap, op, p, q, x, y)
       IN  /\ Len(r.heap) <= MaxCells
           /\ HeapRepresentable(r.heap)
           /\ heap' = r.heap
           /\ last' = [op |-> op, v |-> p, v2 |-> q, x |-> x, ret |-> r.ret, err |-> r.err]
    /\ calls' = calls + 1
    /\ UNCHANGED gradvars

CallNewVariable == \E x \in Vals, y \in Derivs : Call("NewVariable", 0, 0, x, y)

CallNewScalar == \E x \in Vals : Call("NewScalar", 0, 0, x, Zero)

\* NewScalar(v.Deriv())
CallNewScalarOfDeriv == \E p \in DOMAIN heap : Call("NewScalar", p, 0, Deriv(heap, p), Zero)

CallNewInput == \E x \in Vals : Call("NewInput", 0, 0, x, Zero)

CallMethodAdd == \E p, q \in DOMAIN heap : Call("v.Add", p, q, Zero, Zero)

CallMethodSub == \E p, q \in DOMAIN heap : Call("v.Sub", p, q, Zero, Zero)

CallMethodMul == \E p, q \in DOMAIN heap : Call("v.Mul", p, q, Zero, Zero)

CallMethodDiv == \E p, q \in DOMAIN heap : Call("v.Div", p, q, Zero, Zero)

CallSin == \E p \in DOMAIN heap : Call("Sin", p, 0, Zero, Zero)

CallCos == \E p \in DOMAIN heap : Call("Cos", p, 0, Zero, Zero)

CallExp == \E p \in DOMAIN heap : Call("Exp", p, 0, Zero, Zero)

CallLog == \E p \in DOMAIN heap : Call("Log", p, 0, Zero, Zero)

CallPow == \E p \in DOMAIN heap, x \in Exponents : Call("Pow", p, 0, x, Zero)

CallAdd == \E p, q \in DOMAIN heap : Call("Add", p, q, Zero, Zero)

CallMul == \E p, q \in DOMAIN heap : Call("Mul", p, q, Zero, Zero)

Init ==
    /\ heap = <<>>
    /\ last = NoCall
    /\ calls = 0
    /\ inputs = <<>>
    /\ f = <<>>
    /\ grad = <<>>
    /\ i = 0
    /\ vars = <<>>
    /\ pc = "idle"
    /\ ret = <<>>
    /\ evals = <<>>

Next ==
    \/ CallNewVariable
    \/ CallNewScalar
    \/ CallNewScalarOfDeriv
    \/ CallNewInput
    \/ CallMethodAdd
    \/ CallMethodSub
    \/ CallMethodMul
    \/ CallMethodDiv
    \/ CallSin
    \/ CallCos
    \/ CallExp
    \/ CallLog
    \/ CallPow
    \/ CallAdd
    \/ CallMul

Spec == Init /\ [][Next]_allvars

\* ------------------------------------------------------------ Gradient
\* The function f handed to Gradient is a straight-line program over the
\* package: instruction k reads the Variables in registers a and b (the first
\* Len(inputs) registers are the elements of vars, the next ones the results
\* of the earlier instructions) and its result (for an in-place method, the
\* receiver) goes to a new register; f returns the last register.  An instruction "NewScalar" is
\* NewScalar(v.Deriv()).
FPure == {"Add", "Mul"}
FMethods == {"v.Mul", "v.Div"}
FUnary == {"Sin", "Log", "NewScalar"}
FExponents == {Half}

\* the first operand of instruction k > 1 is the result of instruction k - 1
\* and the second one an element of vars; an in-place method may also take an
\* element of vars as the receiver and the previous result as the operand
Instrs(n, k) ==
    LET firsts == IF k = 1 THEN 1..n ELSE {n + k - 1}
        prev == IF k = 1 THEN {} ELSE {n + k - 1}
    IN  {[op |-> o, a |-> a, b |-> b, x |-> Zero] :
            o \in FPure \cup FMethods, a \in firsts, b \in 1..n}
        \cup {[op |-> o, a |-> a, b |-> b, x |-> Zero] :
                o \in FMethods, a \in 1..n, b \in prev}
        \cup {[op |-> o, a |-> a, b |-> 0, x |-> Zero] : o \in FUnary, a \in firsts}
        \cup {[op |-> "Pow", a |-> a, b |-> 0, x |-> e] : a \in firsts, e \in FExponents}

RECURSIVE ProgramsOfLen(_, _)
ProgramsOfLen(n, len) ==
    IF len = 0 THEN {<<>>}
    ELSE {Append(prog, ins) : prog \in ProgramsOfLen(n, len - 1), ins \in Instrs(n, len)}

Programs(n) == UNION {ProgramsOfLen(n, len) : len \in 1..MaxProgLen}

PointVals == {Zero, Int2F(2), Int2F(3)}

Points == {<<x>> : x \in PointVals} \cup {<<x, y>> : x, y \in PointVals}

\* result := f(vars), from instruction k on; ok is FALSE when the run leaves
\* the tabulated and representable numbers
RECURSIVE RunProg(_, _, _, _)
RunProg(h, regs, prog, k) ==
    IF k > Len(prog)
    THEN [heap |-> h, ret |-> regs[Len(regs)], err |-> NoErr, ok |-> TRUE]
    ELSE LET ins == prog[k]
             p == regs[ins.a]
             q == IF ins.b = 0 THEN 0 ELSE regs[ins.b]
             x == IF ins.op = "NewScalar" THEN Deriv(h, p) ELSE ins.x
         IN  IF ~Tabulated(h, ins.op, p, x)
             THEN [heap |-> h, ret |-> 0, err |-> NoErr, ok |-> FALSE]
             ELSE LET r == Exec(h, ins.op, p, q, x, Zero)
                  IN  IF r.err # NoErr
                      THEN [heap |-> r.heap, ret |-> 0, err |-> r.err, ok |-> TRUE]
                      ELSE IF ~HeapRepresentable(r.heap)
                      THEN [heap |-> h, ret |-> 0, err |-> NoErr, ok |-> FALSE]
                      ELSE RunProg(r.heap, Append(regs, r.ret), prog, k + 1)

\* the inner loop: vars[j] = NewInput(inputs[j]) if i == j, else NewScalar(inputs[j])
RECURSIVE MakeVars(_, _, _, _, _)
MakeVars(h, vs, in, d, j) ==
    IF j > Len(in) THEN [heap |-> h, vars |-> vs]
    ELSE LET r == IF d = j THEN NewInput(h, in[j]) ELSE NewScalar(h, in[j])
         IN  MakeVars(r.heap, Append(vs, r.ret), in, d, j + 1)

callvars == <<last, calls>>

RECURSIVE Reseed(_, _, _, _)
Reseed(h, vs, d, j) ==
    IF j = 0 THEN h
    ELSE [Reseed(h, vs, d, j - 1) EXCEPT ![vs[j]].Deriv = IF j = d THEN One ELSE Zero]

\* a loop that builds vars once and afterwards only moves the seed
GradBuildReusesVars ==
    /\ pc = "loop"
    /\ i <= Len(inputs)
    /\ IF vars = <<>>
       THEN LET m == MakeVars(heap, <<>>, inputs, i, 1)
            IN  heap' = m.heap /\ vars' = m.vars
       ELSE /\ heap' = Reseed(heap, vars, i, Len(vars))
            /\ vars' = vars
    /\ pc' = "call"
    /\ UNCHANGED <<inputs, f, grad, i, ret, evals, callvars>>

\* for i := range inputs { vars := make(...); for j := range vars { ... }
GradBuild ==
    /\ pc = "loop"
    /\ i <= Len(inputs)
    /\ LET m == MakeVars(heap, <<>>, inputs, i, 1)
       IN  heap' = m.heap /\ vars' = m.vars
    /\ pc' = "call"
    /\ UNCHANGED <<inputs, f, grad, i, ret, evals, callvars>>

\* a loop body that recovers from a panic of f and goes on to the next dimension
GradCallRecovers ==
    /\ pc = "call"
    /\ LET r == RunProg(heap, vars, f, 1)
       IN  /\ heap' = r.heap
           /\ grad' = IF r.err # NoErr THEN grad
                      ELSE [grad EXCEPT ![i] = Deriv(r.heap, r.ret)]
    /\ evals' = Append(evals, i)
    /\ i' = i + 1
    /\ pc' = "loop"
    /\ UNCHANGED <<inputs, f, vars, ret, callvars>>

\* a loop body that records the value of the result
GradCallRecordsValue ==
    /\ pc = "call"
    /\ evals' = Append(evals, i)
    /\ LET r == RunProg(heap, vars, f, 1)
       IN  /\ heap' = r.heap
           /\ IF r.err # NoErr
              THEN pc' = "panicked" /\ UNCHANGED <<grad, i>>
              ELSE /\ grad' = [grad EXCEPT ![i] = Value(r.heap, r.ret)]
                   /\ i' = i + 1
                   /\ pc' = "loop"
    /\ UNCHANGED <<inputs, f, vars, ret, callvars>>

\* result := f(vars); grad[i] = result.Deriv() -- a panic of f is not recovered
GradCall ==
    /\ pc = "call"
    /\ evals' = Append(evals, i)
    /\ LET r == RunProg(heap, vars, f, 1)
       IN  /\ heap' = r.heap
           /\ IF r.err # NoErr
              THEN pc' = "panicked" /\ UNCHANGED <<grad, i>>
              ELSE /\ grad' = [grad EXCEPT ![i] = Deriv(r.heap, r.ret)]
                   /\ i' = i + 1
                   /\ pc' = "loop"
    /\ UNCHANGED <<inputs, f, vars, ret, callvars>>

\* return grad
GradReturn ==
    /\ pc = "loop"
    /\ i > Len(inputs)
    /\ ret' = grad
    /\ pc' = "done"
    /\ UNCHANGED <<heap, inputs, f, grad, i, vars, evals, callvars>>

\* what f does on the Variables of dimension d alone, on a heap holding
\* nothing else
RECURSIVE Seeded(_, _, _)
Seeded(in, d, n) ==
    IF n = 0 THEN <<>>
    ELSE Append(Seeded(in, d, n - 1), DualNumber(in[n], IF n = d THEN One ELSE Zero))

RECURSIVE Iota(_)
Iota(n) == IF n = 0 THEN <<>> ELSE Append(Iota(n - 1), n)

EvalAlone(prog, in, d) == RunProg(Seeded(in, d, Len(in)), Iota(Len(in)), prog, 1)

TangentAlone(prog, in, d) ==
    LET r == EvalAlone(prog, in, d) IN Deriv(r.heap, r.ret)

RECURSIVE Zeros(_)
Zeros(n) == IF n = 0 THEN <<>> ELSE Append(Zeros(n - 1), Zero)

\* Gradient is entered with a point and a function whose evaluations stay
\* within the tabulated and representable numbers; grad := make([]float64, n)
InitGrad ==
    /\ heap = <<>>
    /\ last = NoCall
    /\ calls = 0
    /\ inputs \in Points
    /\ f \in Programs(Len(inputs))
    /\ \A d \in DOMAIN inputs : EvalAlone(f, inputs, d).ok
    /\ grad = Zeros(Len(inputs))
    /\ i = 1
    /\ vars = <<>>
    /\ pc = "loop"
    /\ ret = <<>>
    /\ evals = <<>>

NextGrad ==
    \/ GradBuild
    \/ GradCall
    \/ GradReturn

SpecGrad == InitGrad /\ [][NextGrad]_allvars

\* ------------------------------------------------------------ properties of the calls
PureOps == Elementary \cup PureBinary

IsCall == calls' # calls

Arg(h, v) == IF v = 0 THEN DualNumber(Zero, Zero) ELSE h[v]

\* C2: the package-level Add and Mul and the elementary functions leave every
\* existing Variable as it was, also when both arguments are the same
\* Variable, and return a Variable that did not exist before the call; an
\* in-place method called next on the returned Variable leaves the arguments
\* of that call as they were.
C2_PureCallsLeaveArguments ==
    [][/\ (IsCall /\ last'.op \in PureOps) =>
              /\ \A c \in DOMAIN heap : heap'[c] = heap[c]
              /\ (last'.err = NoErr =>
                     (last'.ret \notin DOMAIN heap /\ last'.ret \in DOMAIN heap'))
       /\ (IsCall /\ last.op \in PureOps /\ last.err = NoErr
             /\ last'.op \in Methods /\ last'.v = last.ret) =>
              /\ heap'[last.v] = heap[last.v]
              /\ (last.v2 # 0 => heap'[last.v2] = heap[last.v2])
      ]_allvars

C2_Witness ==
    /\ last.op \in PureBinary
    /\ last.v = last.v2
    /\ last.err = NoErr
    /\ ~IsZero(heap[last.v].Value)

\* C3 as stated: after v.Add(v2), v.Sub(v2), v.Mul(v2), v.Div(v2) the operand
\* v2 holds what it held before, for every receiver and operand.
C3_OperandUnchanged ==
    [][(IsCall /\ last'.op \in Methods) => heap'[last'.v2] = heap[last'.v2]]_allvars

\* C3 amended: the operand is unchanged whenever it is not the receiver itself.
C3_DistinctOperandUnchanged ==
    [][(IsCall /\ last'.op \in Methods /\ last'.v2 # last'.v) =>
           heap'[last'.v2] = heap[last'.v2]]_allvars

C3_Witness ==
    /\ last.op = "v.Sub"
    /\ last.v2 # last.v
    /\ last.err = NoErr
    /\ ~IsZero(heap[last.v2].Value)

\* C4: with (a, a') the receiver and (b, b') the operand before the call, the
\* receiver holds (a+b, a'+b'), (a-b, a'-b'), (a*b, a'*b + a*b') or
\* (a/b, (a'*b - a*b')/b^2) after Add, Sub, Mul or a Div that did not fail: the
\* tangent comes from the receiver's value before the call.
C4_MethodLaws ==
    [][(IsCall /\ last'.op \in Methods /\ last'.err = NoErr) =>
           LET a == heap[last'.v].Value
               da == heap[last'.v].Deriv
               b == heap[last'.v2].Value
               db == heap[last'.v2].Deriv
           IN  heap'[last'.v] =
                 CASE last'.op = "v.Add" -> DualNumber(FAdd(a, b), FAdd(da, db))
                   [] last'.op = "v.Sub" -> DualNumber(FSub(a, b), FSub(da, db))
                   [] last'.op = "v.Mul" ->
                        DualNumber(FMul(a, b), FAdd(FMul(da, b), FMul(a, db)))
                   [] last'.op = "v.Div" ->
                        DualNumber(FDiv(a, b),
                                   FDiv(FSub(FMul(da, b), FMul(a, db)), FMul(b, b)))
      ]_allvars

C4_Witness ==
    /\ last.op = "v.Mul"
    /\ last.err = NoErr
    /\ IsFinite(heap[last.v].Deriv)
    /\ ~IsZero(heap[last.v].Deriv)
    /\ ~IsZero(heap[last.v2].Deriv)

\* C5: v.Div(v2) fails with division by zero exactly when v2's value is 0,
\* and a failed call leaves the receiver and the operand as they were.
C5_DivByZero ==
    [][(IsCall /\ last'.op = "v.Div") =>
           /\ last'.err \in {NoErr, DivisionByZero}
           /\ ((last'.err = DivisionByZero) <=> IsZero(heap[last'.v2].Value))
           /\ (last'.err = DivisionByZero => heap' = heap)
      ]_allvars

C5_Witness ==
    /\ last.op = "v.Div"
    /\ last.err = DivisionByZero
    /\ last.v # last.v2
    /\ ~IsZero(heap[last.v2].Deriv)

\* C6: Log fails exactly when the value is <= 0 and Pow exactly when the value
\* is 0 and the exponent <= 0; otherwise each returns a new Variable, and a
\* failed call returns none and leaves its argument as it was.
C6_DomainErrors ==
    [][(IsCall /\ last'.op \in {"Log", "Pow"}) =>
           /\ (last'.op = "Log" =>
                  /\ last'.err \in {NoErr, LogDomain}
                  /\ ((last'.err = LogDomain) <=> LeZero(heap[last'.v].Value)))
           /\ (last'.op = "Pow" =>
                  /\ last'.err \in {NoErr, PowDomain}
                  /\ ((last'.err = PowDomain) <=>
                         (IsZero(heap[last'.v].Value) /\ LeZero(last'.x))))
           /\ (last'.err = NoErr =>
                  (last'.ret \in DOMAIN heap' /\ last'.ret \notin DOMAIN heap))
           /\ (last'.err # NoErr => (last'.ret = 0 /\ heap' = heap))
      ]_allvars

C6_Witness ==
    /\ last.op = "Log"
    /\ last.err = LogDomain
    /\ IsZero(heap[last.v].Value)

\* C8 as stated: a Pow(v, e) that does not fail returns value v.value^e and
\* tangent e * v.value^(e-1) * v.tangent.
C8_PowLaw ==
    [][(IsCall /\ last'.op = "Pow" /\ last'.err = NoErr) =>
           heap'[last'.ret] =
               DualNumber(pow(heap[last'.v].Value, last'.x),
                          FMul(FMul(last'.x, pow(heap[last'.v].Value, FSub(last'.x, One))),
                               heap[last'.v].Deriv))
      ]_allvars

\* C10 as stated: a call that does not fail and whose arguments all have
\* tangent 0 produces or updates a Variable with tangent 0.
C10_ZeroTangentClosed ==
    [][(/\ IsCall
        /\ last'.op \in Methods \cup PureOps
        /\ last'.err = NoErr
        /\ IsZero(heap[last'.v].Deriv)
        /\ IsZero(Arg(heap, last'.v2).Deriv)) =>
           IsZero(heap'[last'.ret].Deriv)
      ]_allvars

\* ------------------------------------------------------------ properties of Gradient
MulProgram == <<[op |-> "Mul", a |-> 1, b |-> 2, x |-> Zero]>>

\* C1: the vector Gradient returns has the length of the point, and its entry
\* d is the tangent of f's result on Variables holding the point, Variable d
\* with tangent 1 and every other with tangent 0; for f(v) = Mul(v[0], v[1])
\* at [p0, p1] it is [p1, p0].
C1_GradientEntries ==
    pc = "done" =>
        /\ Len(ret) = Len(inputs)
        /\ \A d \in DOMAIN inputs : ret[d] = TangentAlone(f, inputs, d)
        /\ f = MulProgram => ret = <<inputs[2], inputs[1]>>

C1_Witness ==
    /\ pc = "done"
    /\ f = MulProgram
    /\ inputs = <<Int2F(2), Int2F(3)>>
    /\ ret = <<Int2F(3), Int2F(2)>>

\* C7: Gradient fails exactly at the first dimension whose evaluation of f
\* panics: f has then been called for the dimensions up to that one and no
\* further, no vector is returned, and nothing happens afterwards; a vector is
\* returned only when no evaluation panicked.
C7_PanicPropagates ==
    /\ [](pc = "panicked" =>
            /\ ret = <<>>
            /\ evals = Iota(i)
            /\ EvalAlone(f, inputs, i).err # NoErr
            /\ \A d \in 1..(i - 1) : EvalAlone(f, inputs, d).err = NoErr)
    /\ [](pc = "done" =>
            \A d \in DOMAIN inputs : EvalAlone(f, inputs, d).err = NoErr)
    /\ [][pc = "panicked" => UNCHANGED <<pc, ret, evals, grad, i>>]_allvars

C7_Witness ==
    /\ pc = "panicked"
    /\ i = 2
    /\ ~IsZero(grad[1])
    /\ evals = <<1, 2>>

\* C9: every evaluation starts from Variables that did not exist before,
\* holding the point's values and the seed of its dimension; the point is
\* never written; and the entry recorded for a dimension is the tangent f
\* yields on that dimension alone, the other entries staying as they were --
\* also when f updates its Variables in place.
C9_IndependentEvaluations ==
    [][/\ inputs' = inputs
       /\ pc' = "call" =>
              /\ Len(vars') = Len(inputs)
              /\ \A j \in DOMAIN vars' :
                    /\ vars'[j] \notin DOMAIN heap
                    /\ heap'[vars'[j]] =
                          DualNumber(inputs[j], IF j = i THEN One ELSE Zero)
                    /\ \A k \in DOMAIN vars' : k # j => vars'[k] # vars'[j]
       /\ (pc = "call" /\ pc' = "loop") =>
              /\ grad'[i] = TangentAlone(f, inputs, i)
              /\ \A j \in DOMAIN grad : j # i => grad'[j] = grad[j]
      ]_allvars

\* f updated its first Variable in place during the first evaluation
C9_Witness ==
    /\ pc = "done"
    /\ Len(inputs) = 2
    /\ f[1].op \in Methods
    /\ f[1].a = 1
    /\ heap[1].Value # inputs[1]
    /\ ~IsZero(ret[2])

====
